---------------------------- MODULE Spec2Model ----------------------------
(***************************************************************************)
(* Model of openjd/adaptor_runtime/_named_pipe/named_pipe_helper.py:       *)
(* NamedPipeHelper.establish_named_pipe_connection, read_from_pipe,        *)
(* write_to_pipe, _handle_pipe_exception and send_named_pipe_request,      *)
(* together with the environment they talk to (the clock, the win32 calls  *)
(* and the peer at the other end of the pipe).                             *)
(*                                                                         *)
(* A Python str is a sequence of one-character strings, a bytes object a   *)
(* sequence of integers 0..255.  Time is counted in ticks of 50 ms.        *)
(***************************************************************************)
EXTENDS Integers, Sequences, FiniteSets, TLC

(***************************************************************************)
(* Bounds of the model.                                                    *)
(***************************************************************************)
MaxTimeout == 3        \* largest timeout_in_seconds tried, in ticks
MaxOpenDelay == 1      \* longest time one CreateFile call takes, in ticks
MaxOversleep == 1      \* longest time time.sleep oversleeps, in ticks
MaxLen == 3            \* longest response (in characters) the peer writes
MaxCalls == 2          \* number of sequential send_named_pipe_request calls
NumCallers == 2        \* number of callers running an exchange concurrently
MaxInstances == 1      \* pipe instances the server accepts at the same time

(***************************************************************************)
(* Program constants.                                                      *)
(***************************************************************************)
SleepTicks == 2                 \* time.sleep(0.1): 100 ms = 2 ticks
NAMED_PIPE_BUFFER_SIZE == 2     \* bytes per ReadFile, scaled down

NO_ERROR == 0
ERROR_FILE_NOT_FOUND == 2
ERROR_ACCESS_DENIED == 5
ERROR_INVALID_HANDLE == 6
ERROR_BROKEN_PIPE == 109
ERROR_PIPE_BUSY == 231
ERROR_NO_DATA == 232
ERROR_PIPE_NOT_CONNECTED == 233
ERROR_MORE_DATA == 234
ERROR_IO_PENDING == 997

(***************************************************************************)
(* str.encode("utf-8") and bytes.decode("utf-8"), for code points below    *)
(* U+0800 (one- and two-byte sequences).                                   *)
(***************************************************************************)
ord ==
  ("0" :> 48) @@ ("1" :> 49) @@ ("\"" :> 34)
  @@ ("\\" :> 92) @@ ("{" :> 123) @@ ("}" :> 125) @@ (":" :> 58)
  @@ ("," :> 44) @@ (" " :> 32) @@ ("/" :> 47) @@ ("G" :> 71)
  @@ ("E" :> 69) @@ ("T" :> 84)
  @@ ("a" :> 97) @@ ("b" :> 98) @@ ("d" :> 100) @@ ("e" :> 101)
  @@ ("h" :> 104) @@ ("m" :> 109) @@ ("o" :> 111) @@ ("p" :> 112)
  @@ ("r" :> 114) @@ ("s" :> 115) @@ ("t" :> 116) @@ ("x" :> 120)
  @@ ("y" :> 121) @@ ("é" :> 233)

chr(cp) == CHOOSE c \in DOMAIN ord : ord[c] = cp

RECURSIVE utf8_encode(_)
utf8_encode(s) ==
  IF s = <<>> THEN <<>>
  ELSE LET cp == ord[Head(s)] IN
       (IF cp < 128 THEN <<cp>>
        ELSE <<192 + (cp \div 64), 128 + (cp % 64)>>) \o utf8_encode(Tail(s))

IsContinuation(b) == b >= 128 /\ b < 192

\* [ok |-> FALSE] stands for UnicodeDecodeError
RECURSIVE utf8_decode(_)
utf8_decode(b) ==
  IF b = <<>> THEN [ok |-> TRUE, s |-> <<>>]
  ELSE IF Head(b) < 128
       THEN LET rest == utf8_decode(Tail(b)) IN
            [ok |-> rest.ok,
             s |-> IF rest.ok THEN <<chr(Head(b))>> \o rest.s ELSE <<>>]
  ELSE IF Head(b) >= 194 /\ Head(b) < 224 /\ Len(b) >= 2 /\ IsContinuation(b[2])
       THEN LET rest == utf8_decode(SubSeq(b, 3, Len(b))) IN
            [ok |-> rest.ok,
             s |-> IF rest.ok
                   THEN <<chr((Head(b) - 192) * 64 + (b[2] - 128))>> \o rest.s
                   ELSE <<>>]
  ELSE [ok |-> FALSE, s |-> <<>>]

(***************************************************************************)
(* json.dumps and json.loads.                                              *)
(***************************************************************************)
RECURSIVE json_escape(_)
json_escape(s) ==
  IF s = <<>> THEN <<>>
  ELSE (IF Head(s) \in {"\"", "\\"} THEN <<"\\", Head(s)>> ELSE <<Head(s)>>)
       \o json_escape(Tail(s))

json_dumps_str(s) == <<"\"">> \o json_escape(s) \o <<"\"">>

\* a dict is a sequence of <<key, value>> pairs in insertion order;
\* json_dumps_items joins the items whose values are already serialized
RECURSIVE json_dumps_items(_)
json_dumps_items(d) ==
  IF d = <<>> THEN <<>>
  ELSE json_dumps_str(d[1][1]) \o <<":", " ">> \o d[1][2]
       \o (IF Len(d) > 1 THEN <<",", " ">> ELSE <<>>)
       \o json_dumps_items(Tail(d))

json_dumps_int(n) == <<ToString(n)>>

\* json.dumps of a dict of str -> int (the caller's params and json_body)
json_dumps(d) ==
  <<"{">>
  \o json_dumps_items([i \in 1..Len(d) |-> <<d[i][1], json_dumps_int(d[i][2])>>])
  \o <<"}">>

\* json.dumps of a dict of str -> str (message_dict)
json_dumps_message(d) ==
  <<"{">>
  \o json_dumps_items([i \in 1..Len(d) |-> <<d[i][1], json_dumps_str(d[i][2])>>])
  \o <<"}">>

IsPlainChar(c) == c \notin {"\"", "\\"}

\* json.loads on the documents the peer can write: the number 0 and a string
\* without escapes.  [ok |-> FALSE] stands for json.JSONDecodeError.
JsonError == [ok |-> FALSE, type |-> "error", chars |-> <<>>]

\* json_loads that does not look for the closing quote of a string
json_loads_NoClosingQuote(s) ==
  IF s = <<"0">> THEN [ok |-> TRUE, type |-> "int", chars |-> s]
  ELSE IF Len(s) >= 2 /\ s[1] = "\""
       THEN [ok |-> TRUE, type |-> "str", chars |-> SubSeq(s, 2, Len(s) - 1)]
  ELSE JsonError

json_loads(s) ==
  IF s = <<"0">> THEN [ok |-> TRUE, type |-> "int", chars |-> s]
  ELSE IF Len(s) >= 2 /\ s[1] = "\"" /\ s[Len(s)] = "\""
          /\ \A i \in 2..(Len(s) - 1) : IsPlainChar(s[i])
       THEN [ok |-> TRUE, type |-> "str", chars |-> SubSeq(s, 2, Len(s) - 1)]
  ELSE JsonError

(***************************************************************************)
(* Values shared by the actions.                                           *)
(***************************************************************************)
\* Optional[Dict]: None, or a dict
None == [some |-> FALSE, v |-> <<>>]
Some(d) == [some |-> TRUE, v |-> d]

\* Python truthiness of an Optional[Dict]: None and {} are both falsy
Truthy(x) == x.some /\ x.v # <<>>

\* FormatMessage text of a Windows error code
strerror(c) ==
  CASE c = ERROR_FILE_NOT_FOUND -> "The system cannot find the file specified."
    [] c = ERROR_ACCESS_DENIED -> "Access is denied."
    [] c = ERROR_INVALID_HANDLE -> "The handle is invalid."
    [] c = ERROR_BROKEN_PIPE -> "The pipe has been ended."
    [] c = ERROR_PIPE_BUSY -> "All pipe instances are busy."
    [] c = ERROR_NO_DATA -> "The pipe is being closed."
    [] c = ERROR_PIPE_NOT_CONNECTED -> "No process is on the other end of the pipe."
    [] OTHER -> "Unknown error."

\* an exception object; "None" is the absence of one
NoError ==
  [type |-> "None", winerror |-> 0, funcname |-> "", strerror |-> "",
   duration |-> 0]

\* pywintypes.error(winerror, funcname, strerror), as the win32 calls raise it
pywintypes_error(c, f) ==
  [type |-> "pywintypes.error", winerror |-> c, funcname |-> f,
   strerror |-> strerror(c), duration |-> 0]

PipeDisconnectedException(error) ==
  [type |-> "PipeDisconnectedException", winerror |-> error.winerror,
   funcname |-> error.funcname, strerror |-> error.strerror, duration |-> 0]

NamedPipeTimeoutError(d, error) ==
  [type |-> "NamedPipeTimeoutError", winerror |-> error.winerror,
   funcname |-> error.funcname, strerror |-> error.strerror, duration |-> d]

PythonError(t) ==
  [type |-> t, winerror |-> 0, funcname |-> "", strerror |-> "", duration |-> 0]

\* how a call of send_named_pipe_request ended
NoOutcome == [kind |-> "none", exc |-> NoError, value |-> JsonError]
Raise(x) == [kind |-> "raise", exc |-> x, value |-> JsonError]
Return(v) == [kind |-> "return", exc |-> NoError, value |-> v]

\* IsDisconnectCode without the invalid-handle code
IsDisconnectCode_NoInvalidHandle(c) ==
  c \in {ERROR_BROKEN_PIPE, ERROR_PIPE_NOT_CONNECTED}

\* the exception _handle_pipe_exception raises for the caught error e
IsDisconnectCode(c) ==
  c \in {ERROR_BROKEN_PIPE, ERROR_PIPE_NOT_CONNECTED, ERROR_INVALID_HANDLE}

_handle_pipe_exception(error) ==
  IF IsDisconnectCode(error.winerror)
  THEN PipeDisconnectedException(error)
  ELSE error

\* IsTransientOpenError retrying whatever the code
IsTransientOpenError_Any(c) == TRUE

\* establish_named_pipe_connection: the codes that are retried
IsTransientOpenError(c) == c \in {ERROR_FILE_NOT_FOUND, ERROR_PIPE_BUSY}

\* establish_entry that checks the timeout before the first open
establish_entry_CheckTimeoutFirst == "sleep"

\* establish_named_pipe_connection: handle is None on entry, so the loop body
\* starts with win32file.CreateFile
establish_entry == "CreateFile"

\* TimeoutExceeded on the time elapsed once the sleep is over
TimeoutExceeded_AfterSleep(d, t) == d + SleepTicks > t

\* TimeoutExceeded with the comparison reversed
TimeoutExceeded_Reversed(d, t) == d < t

\* establish_named_pipe_connection: the timeout check
TimeoutExceeded(d, t) == d > t

\* read_status that reads on after an unexpected return code
read_status_ContinueOnUnexpected(return_code) ==
  IF return_code = NO_ERROR THEN "return" ELSE "continue"

\* read_status that returns what it has on an unexpected return code
read_status_ReturnOnUnexpected(return_code) ==
  IF return_code = ERROR_MORE_DATA THEN "continue" ELSE "return"

\* read_from_pipe: what the return code of one ReadFile leads to
read_status(return_code) ==
  IF return_code = ERROR_MORE_DATA THEN "continue"
  ELSE IF return_code = NO_ERROR THEN "return"
  ELSE "raise"

\* "".join(data_parts)
RECURSIVE join(_)
join(parts) == IF parts = <<>> THEN <<>> ELSE Head(parts) \o join(Tail(parts))

\* send_named_pipe_request: the envelope
build_message_dict(m, p, pa, jb) ==
  << <<<<"m", "e", "t", "h", "o", "d">>, m>>, <<<<"p", "a", "t", "h">>, p>> >>
  \o (IF Truthy(jb) THEN << <<<<"b", "o", "d", "y">>, json_dumps(jb.v)>> >> ELSE <<>>)
  \o (IF Truthy(pa)
      THEN << <<<<"p", "a", "r", "a", "m", "s">>, json_dumps(pa.v)>> >>
      ELSE <<>>)

\* after_write going on to read whatever the write did
after_write_AlwaysRead(raised) == "ReadFile"

\* send_named_pipe_request: the read follows a write that did not raise
after_write(raised) == IF raised THEN "done" ELSE "ReadFile"

\* set_message_mode that leaves the handle in byte mode
set_message_mode_Skipped(hs, h) == hs

\* win32pipe.SetNamedPipeHandleState(handle, PIPE_READMODE_MESSAGE, None, None)
\* on the handle table
set_message_mode(hs, h) == [hs EXCEPT ![h].message_mode = TRUE]

\* close that leaves the handle as it is
close_Never(hs, h) == hs

\* handle.close() on the handle table
close(hs, h) ==
  [hs EXCEPT ![h] = [@ EXCEPT !.open = FALSE, !.closes = @ + 1]]

(***************************************************************************)
(* Inputs and the environment's choices.                                   *)
(***************************************************************************)
Timeouts == (-1)..MaxTimeout
Methods == {<<"G", "E", "T">>}
Paths == {<<"/", "s">>}
Mappings == {<<>>, << <<<<"x">>, 1>> >>}
OptionalMappings == {None} \cup {Some(d) : d \in Mappings}

OpenErrorCodes == {ERROR_FILE_NOT_FOUND, ERROR_PIPE_BUSY, ERROR_ACCESS_DENIED}
SetStateErrorCodes == {ERROR_INVALID_HANDLE}
PipeErrorCodes ==
  {ERROR_BROKEN_PIPE, ERROR_PIPE_NOT_CONNECTED, ERROR_INVALID_HANDLE,
   ERROR_NO_DATA}

\* the responses the peer may write: every string of 1..MaxLen characters
ResponseChars == {"0", "\"", "é"}
Responses == UNION {[1..n -> ResponseChars] : n \in 1..MaxLen}

Min(a, b) == IF a < b THEN a ELSE b

\* what the server endpoint does while a call connects: from the elapsed
\* time `from` on it is connectable and stays so (every open succeeds), or
\* nothing is known about it
NoPromise == [promised |-> FALSE, from |-> 0]
ConnectableFrom(t) == [promised |-> TRUE, from |-> t]
Endpoints == {NoPromise} \cup {ConnectableFrom(t) : t \in 0..(MaxTimeout + 1)}

(***************************************************************************)
(* State.                                                                  *)
(***************************************************************************)
VARIABLES
  pc,                  \* position of the caller inside send_named_pipe_request
  calls,               \* number of calls of send_named_pipe_request so far
  timeout_in_seconds,  \* argument, in ticks
  method, path, params, json_body,   \* arguments
  now,                 \* the clock, in ticks since the call began; read only
                       \* inside establish_named_pipe_connection
  start_time, duration, e,           \* locals of establish_named_pipe_connection
  handle,              \* local handle; 0 is None
  handles,             \* the handle table of the process
  message_dict, message,             \* locals of send_named_pipe_request
  written,             \* the bytes the peer received from WriteFile
  peer_msg,            \* the bytes of the message the peer wrote in reply
  pipe_bytes,          \* the part of peer_msg that ReadFile has not returned
  data_parts,          \* local of read_from_pipe
  result,              \* what read_from_pipe returned
  outcome,             \* how the call ended
  conn_log,            \* the calls made by establish_named_pipe_connection
  chan_ops,            \* the calls made on the handle, in order
  ideal,               \* no CreateFile took time and no sleep overslept
  endpoint,            \* the server endpoint during establish_named_pipe_connection
  callers,             \* concurrent callers: position, timeout, clock, outcome
  local_handle,        \* concurrent callers: the local variable handle of each
  pipe_handles,        \* concurrent callers: the handle table of the process
  uses                 \* concurrent callers: <<caller, handle, operation>> made

vars ==
  <<pc, calls, timeout_in_seconds, method, path, params, json_body, now,
    start_time, duration, e, handle, handles, message_dict, message, written,
    peer_msg, pipe_bytes, data_parts, result, outcome, conn_log, chan_ops,
    ideal, endpoint, callers, local_handle, pipe_handles, uses>>

\* the state of one exchange at a time, and the state of concurrent exchanges
sequential ==
  <<pc, calls, timeout_in_seconds, method, path, params, json_body, now,
    start_time, duration, e, handle, handles, message_dict, message, written,
    peer_msg, pipe_bytes, data_parts, result, outcome, conn_log, chan_ops,
    ideal, endpoint>>
concurrent == <<callers, local_handle, pipe_handles, uses>>

Callers == 1..NumCallers
IdleCaller ==
  [pc |-> "idle", timeout |-> 0, now |-> 0, duration |-> 0, ended |-> "none"]

args == <<timeout_in_seconds, method, path, params, json_body>>
envelope == <<message_dict, message, written>>
reading == <<peer_msg, pipe_bytes, data_parts, result>>

Op(name, raised, code) == [op |-> name, raised |-> raised, code |-> code]

Init ==
  /\ pc = "idle"
  /\ calls = 0
  /\ timeout_in_seconds = 0
  /\ method = <<>> /\ path = <<>> /\ params = None /\ json_body = None
  /\ now = 0 /\ start_time = 0 /\ duration = 0 /\ e = NoError
  /\ handle = 0
  /\ handles = <<>>
  /\ message_dict = <<>> /\ message = <<>> /\ written = <<>>
  /\ peer_msg = <<>> /\ pipe_bytes = <<>> /\ data_parts = <<>>
  /\ result = None
  /\ outcome = NoOutcome
  /\ conn_log = <<>> /\ chan_ops = <<>>
  /\ ideal = TRUE
  /\ endpoint = NoPromise
  /\ callers = [c \in Callers |-> IdleCaller]
  /\ local_handle = [c \in Callers |-> 0]
  /\ pipe_handles = <<>>
  /\ uses = {}

(***************************************************************************)
(* send_named_pipe_request is called: establish_named_pipe_connection      *)
(* starts and records start_time.                                          *)
(***************************************************************************)
Call ==
  /\ UNCHANGED concurrent
  /\ pc = "idle"
  /\ calls < MaxCalls
  /\ calls' = calls + 1
  /\ \E t \in Timeouts, m \in Methods, p \in Paths,
        pa \in OptionalMappings, jb \in OptionalMappings :
       /\ timeout_in_seconds' = t
       /\ method' = m /\ path' = p /\ params' = pa /\ json_body' = jb
  /\ now' = 0 /\ start_time' = 0 /\ duration' = 0 /\ e' = NoError
  /\ handle' = 0
  /\ message_dict' = <<>> /\ message' = <<>> /\ written' = <<>>
  /\ peer_msg' = <<>> /\ pipe_bytes' = <<>> /\ data_parts' = <<>>
  /\ result' = None
  /\ outcome' = NoOutcome
  /\ conn_log' = <<>> /\ chan_ops' = <<>>
  /\ ideal' = TRUE
  /\ endpoint' \in Endpoints
  /\ pc' = establish_entry
  /\ UNCHANGED handles

(***************************************************************************)
(* One iteration of the while loop up to the sleep: win32file.CreateFile   *)
(* and, when it raises, the except clause up to time.sleep.                *)
(***************************************************************************)
CreateFile ==
  /\ UNCHANGED concurrent
  /\ pc = "CreateFile"
  /\ \E d \in 0..MaxOpenDelay :
       /\ now' = now + d
       /\ ideal' = (ideal /\ d = 0)
  /\ conn_log' = Append(conn_log, "CreateFile")
  /\ \/ \* the open succeeds: the loop ends
        /\ handles' = Append(handles, [open |-> TRUE, closes |-> 0,
                                       message_mode |-> FALSE])
        /\ handle' = Len(handles) + 1
        /\ pc' = "SetNamedPipeHandleState"
        /\ UNCHANGED <<duration, e, outcome>>
     \/ \* the open raises pywintypes.error
        \E c \in OpenErrorCodes :
          /\ ~(endpoint.promised /\ now' >= endpoint.from)
          /\ e' = pywintypes_error(c, "CreateFile")
          /\ IF IsTransientOpenError(c)
             THEN /\ duration' = now' - start_time
                  /\ pc' = "sleep"
                  /\ UNCHANGED outcome
             ELSE /\ outcome' = Raise(e')
                  /\ pc' = "done"
                  /\ UNCHANGED duration
          /\ UNCHANGED <<handle, handles>>
  /\ UNCHANGED <<calls, args, start_time, envelope, reading, chan_ops, endpoint>>

(***************************************************************************)
(* time.sleep(0.1), then the timeout check on the duration computed before *)
(* the sleep.                                                              *)
(***************************************************************************)
Sleep ==
  /\ UNCHANGED concurrent
  /\ pc = "sleep"
  /\ \E o \in 0..MaxOversleep :
       /\ now' = now + SleepTicks + o
       /\ ideal' = (ideal /\ o = 0)
  /\ conn_log' = Append(conn_log, "sleep")
  /\ IF TimeoutExceeded(duration, timeout_in_seconds)
     THEN /\ outcome' = Raise(NamedPipeTimeoutError(duration, e))
          /\ pc' = "done"
     ELSE /\ pc' = "CreateFile"
          /\ UNCHANGED outcome
  /\ UNCHANGED <<calls, args, start_time, duration, e, handle, handles,
                 envelope, reading, chan_ops, endpoint>>

(***************************************************************************)
(* win32pipe.SetNamedPipeHandleState and the return of the handle.  An     *)
(* error raised here leaves establish_named_pipe_connection and            *)
(* send_named_pipe_request: the call is made before the try statement.     *)
(***************************************************************************)
SetNamedPipeHandleState ==
  /\ UNCHANGED concurrent
  /\ pc = "SetNamedPipeHandleState"
  /\ \/ /\ handles' = set_message_mode(handles, handle)
        /\ chan_ops' = Append(chan_ops, Op("SetNamedPipeHandleState", FALSE, 0))
        /\ pc' = "WriteFile"
        \* the frame of establish_named_pipe_connection is gone
        /\ now' = 0 /\ start_time' = 0 /\ duration' = 0 /\ e' = NoError
        /\ conn_log' = <<>> /\ endpoint' = NoPromise
        /\ UNCHANGED outcome
     \/ \E c \in SetStateErrorCodes :
          /\ chan_ops' = Append(chan_ops, Op("SetNamedPipeHandleState", TRUE, c))
          /\ outcome' = Raise(pywintypes_error(c, "SetNamedPipeHandleState"))
          /\ pc' = "done"
          /\ UNCHANGED <<handles, now, start_time, duration, e, conn_log,
                         endpoint>>
  /\ UNCHANGED <<calls, args, handle, envelope, reading, ideal>>

(***************************************************************************)
(* The body of the try statement up to write_to_pipe: the envelope is      *)
(* built and serialized and win32file.WriteFile is called once.  When it   *)
(* raises, _handle_pipe_exception raises in turn and the finally clause    *)
(* closes the handle.  When it does not, the peer has the request and      *)
(* writes its reply as one message.                                        *)
(***************************************************************************)
WriteFile ==
  /\ UNCHANGED concurrent
  /\ pc = "WriteFile"
  /\ message_dict' = build_message_dict(method, path, params, json_body)
  /\ message' = json_dumps_message(message_dict')
  /\ \/ /\ written' = utf8_encode(message')
        /\ \E r \in Responses :
             /\ peer_msg' = utf8_encode(r)
             /\ pipe_bytes' = peer_msg'
        /\ chan_ops' = Append(chan_ops, Op("WriteFile", FALSE, 0))
        /\ pc' = after_write(FALSE)
        /\ UNCHANGED <<handles, outcome>>
     \/ \E c \in PipeErrorCodes :
          /\ chan_ops' = Append(Append(chan_ops, Op("WriteFile", TRUE, c)),
                                Op("close", FALSE, 0))
          /\ handles' = close(handles, handle)
          /\ outcome' = Raise(_handle_pipe_exception(pywintypes_error(c, "WriteFile")))
          /\ pc' = after_write(TRUE)
          /\ UNCHANGED <<written, peer_msg, pipe_bytes>>
  /\ UNCHANGED <<calls, args, now, start_time, duration, e, handle,
                 data_parts, result, conn_log, ideal, endpoint>>

(***************************************************************************)
(* One iteration of the loop of read_from_pipe: win32file.ReadFile returns *)
(* at most NAMED_PIPE_BUFFER_SIZE bytes of the message with a return code, *)
(* or raises.  Whatever leaves read_from_pipe also runs the finally clause *)
(* (handle.close()) and, after a return, json.loads.                       *)
(***************************************************************************)
Finish(out) ==
  /\ handles' = close(handles, handle)
  /\ outcome' = out
  /\ pc' = "done"

ReadFile ==
  /\ UNCHANGED concurrent
  /\ pc = "ReadFile"
  /\ \/ \* ReadFile raises pywintypes.error
        \E c \in PipeErrorCodes :
          /\ chan_ops' = Append(Append(chan_ops, Op("ReadFile", TRUE, c)),
                                Op("close", FALSE, 0))
          /\ Finish(Raise(_handle_pipe_exception(pywintypes_error(c, "ReadFile"))))
          /\ UNCHANGED <<pipe_bytes, data_parts, result>>
     \/ \* ReadFile returns (return_code, data)
        \E unexpected \in BOOLEAN :
          LET n == Min(NAMED_PIPE_BUFFER_SIZE, Len(pipe_bytes))
              data == SubSeq(pipe_bytes, 1, n)
              rest == SubSeq(pipe_bytes, n + 1, Len(pipe_bytes))
              return_code == IF unexpected THEN ERROR_IO_PENDING
                             ELSE IF rest # <<>> THEN ERROR_MORE_DATA
                             ELSE NO_ERROR
              decoded == utf8_decode(data)
              parts == Append(data_parts, decoded.s)
          IN
          /\ pipe_bytes' = rest
          /\ IF ~decoded.ok
             THEN \* data.decode raises; the except clause does not catch it
                  /\ chan_ops' = Append(Append(chan_ops,
                                   Op("ReadFile", FALSE, return_code)),
                                   Op("close", FALSE, 0))
                  /\ Finish(Raise(PythonError("UnicodeDecodeError")))
                  /\ UNCHANGED <<data_parts, result>>
             ELSE /\ data_parts' = parts
                  /\ CASE read_status(return_code) = "continue" ->
                            /\ chan_ops' = Append(chan_ops,
                                             Op("ReadFile", FALSE, return_code))
                            /\ UNCHANGED <<handles, outcome, pc, result>>
                       [] read_status(return_code) = "return" ->
                            /\ chan_ops' = Append(Append(chan_ops,
                                             Op("ReadFile", FALSE, return_code)),
                                             Op("close", FALSE, 0))
                            /\ result' = Some(join(parts))
                            /\ LET v == json_loads(join(parts)) IN
                               Finish(IF v.ok THEN Return(v)
                                      ELSE Raise(PythonError("json.JSONDecodeError")))
                       [] OTHER ->
                            \* IOError is not a pywintypes.error
                            /\ chan_ops' = Append(Append(chan_ops,
                                             Op("ReadFile", FALSE, return_code)),
                                             Op("close", FALSE, 0))
                            /\ Finish(Raise(PythonError("IOError")))
                            /\ UNCHANGED result
  /\ UNCHANGED <<calls, args, now, start_time, duration, e, handle, envelope,
                 peer_msg, conn_log, ideal, endpoint>>

(***************************************************************************)
(* The call is over: its result or its exception is with the caller and    *)
(* the frame of send_named_pipe_request is gone.                           *)
(***************************************************************************)
ReturnToCaller ==
  /\ UNCHANGED concurrent
  /\ pc = "done"
  /\ pc' = "idle"
  /\ timeout_in_seconds' = 0
  /\ method' = <<>> /\ path' = <<>> /\ params' = None /\ json_body' = None
  /\ now' = 0 /\ start_time' = 0 /\ duration' = 0 /\ e' = NoError
  /\ handle' = 0
  /\ message_dict' = <<>> /\ message' = <<>> /\ written' = <<>>
  /\ peer_msg' = <<>> /\ pipe_bytes' = <<>> /\ data_parts' = <<>>
  /\ result' = None
  /\ outcome' = NoOutcome
  /\ conn_log' = <<>> /\ chan_ops' = <<>>
  /\ ideal' = TRUE
  /\ endpoint' = NoPromise
  /\ UNCHANGED <<calls, handles>>

Next ==
  \/ Call
  \/ ReturnToCaller
  \/ CreateFile
  \/ Sleep
  \/ SetNamedPipeHandleState
  \/ WriteFile
  \/ ReadFile

Spec == Init /\ [][Next]_vars

(***************************************************************************)
(* Properties.                                                             *)
(***************************************************************************)
Ended == pc = "done"
Raised(t) == outcome.kind = "raise" /\ outcome.exc.type = t
OpsNamed(name) == {i \in DOMAIN chan_ops : chan_ops[i].op = name}
\* establish_named_pipe_connection returned a handle to the exchange
Established == chan_ops # <<>> /\ ~chan_ops[1].raised

\* C1: when the call has ended, in whatever way, no handle that was opened
\* is still open.
C1_NoHandleLeftOpen ==
  Ended => \A h \in DOMAIN handles : ~handles[h].open

\* C2: close is never invoked twice on a handle, and when an exchange that
\* obtained a handle from establish_named_pipe_connection has ended, close
\* was invoked on that handle exactly once.
C2_ClosedExactlyOnce ==
  /\ \A h \in DOMAIN handles : handles[h].closes <= 1
  /\ Cardinality(OpsNamed("close")) <= 1
  /\ (Ended /\ Established) =>
       /\ handles[handle].closes = 1
       /\ Cardinality(OpsNamed("close")) = 1

\* read_from_pipe raised after a first chunk had been read, and the handle
\* was closed once
C2_Witness ==
  /\ Ended /\ Established
  /\ outcome.kind = "raise"
  /\ Cardinality(OpsNamed("ReadFile")) >= 2
  /\ \E i \in OpsNamed("ReadFile") : chan_ops[i].raised
  /\ handles[handle].closes = 1

\* C3: a Timeout is only ever raised when the time elapsed since the start
\* of establish_named_pipe_connection strictly exceeds timeout_in_seconds.
C3_TimeoutOnlyAfterTimeout ==
  Raised("NamedPipeTimeoutError") => now - start_time > timeout_in_seconds

\* a Timeout raised for a positive timeout after more than one attempt
C3_Witness ==
  /\ Raised("NamedPipeTimeoutError")
  /\ timeout_in_seconds > 0
  /\ Len(conn_log) >= 4
  /\ \A i \in DOMAIN conn_log : conn_log[i] \in {"CreateFile", "sleep"}

\* C4: when every open fails at once with a transient code and every sleep
\* lasts exactly the backoff interval, the Timeout is raised no later than
\* timeout_in_seconds plus one backoff interval after the start, for every
\* non-negative timeout.
C4_TimeoutWithinOneBackoff ==
  (Raised("NamedPipeTimeoutError") /\ ideal /\ timeout_in_seconds >= 0) =>
    now - start_time <= timeout_in_seconds + SleepTicks

\* C5: a transport error raised by ReadFile or WriteFile ends the call with
\* PipeDisconnectedException carrying its code, function name and message
\* when the code is broken-pipe, pipe-not-connected or invalid-handle, and
\* with the original pywintypes.error for any other code.
C5_Classification ==
  \A i \in OpsNamed("ReadFile") \cup OpsNamed("WriteFile") :
    chan_ops[i].raised =>
      /\ Ended
      /\ outcome.kind = "raise"
      /\ outcome.exc =
           [type |-> IF chan_ops[i].code \in
                          {ERROR_BROKEN_PIPE, ERROR_PIPE_NOT_CONNECTED,
                           ERROR_INVALID_HANDLE}
                     THEN "PipeDisconnectedException"
                     ELSE "pywintypes.error",
            winerror |-> chan_ops[i].code,
            funcname |-> chan_ops[i].op,
            strerror |-> strerror(chan_ops[i].code),
            duration |-> 0]

\* ReadFile raised invalid-handle and the call ended with Disconnected
C5_Witness ==
  /\ Ended
  /\ \E i \in OpsNamed("ReadFile") :
       chan_ops[i].raised /\ chan_ops[i].code = ERROR_INVALID_HANDLE
  /\ Raised("PipeDisconnectedException")

\* C6: when CreateFile fails with a code other than file-not-found or
\* pipe-busy the call has ended with that error, and the failed CreateFile
\* is the last thing establish_named_pipe_connection did: no sleep and no
\* further open follows it.
C6_NonTransientFailsAtOnce ==
  (e.type # "None" /\ e.winerror \notin {ERROR_FILE_NOT_FOUND, ERROR_PIPE_BUSY}) =>
    /\ Ended
    /\ outcome = Raise(e)
    /\ conn_log[Len(conn_log)] = "CreateFile"
    /\ handle = 0

\* a non-transient failure on a retry, with time left before the timeout
C6_Witness ==
  /\ Ended
  /\ e.winerror = ERROR_ACCESS_DENIED
  /\ Len(conn_log) >= 3
  /\ now - start_time < timeout_in_seconds

\* C7: when the transport delivers the whole message of the peer, in
\* however many chunks and without any error or unexpected status,
\* read_from_pipe returns exactly the UTF-8 decoding of the bytes the peer
\* wrote.
C7_ReadReturnsWholeMessage ==
  (/\ Ended
   /\ OpsNamed("ReadFile") # {}
   /\ \A i \in OpsNamed("ReadFile") :
        ~chan_ops[i].raised /\ chan_ops[i].code \in {ERROR_MORE_DATA, NO_ERROR})
  => result = Some(utf8_decode(peer_msg).s)

\* C8: on one channel at most one write is issued, every read comes after a
\* write that completed without raising, and once the exchange reads or has
\* ended exactly one write was issued.
C8_OneWriteBeforeRead ==
  /\ Cardinality(OpsNamed("WriteFile")) <= 1
  /\ \A r \in OpsNamed("ReadFile") :
       \E w \in OpsNamed("WriteFile") : w < r /\ ~chan_ops[w].raised
  /\ (pc = "ReadFile" \/ (Ended /\ Established)) =>
       Cardinality(OpsNamed("WriteFile")) = 1
  /\ pc = "ReadFile" => \E w \in OpsNamed("WriteFile") : ~chan_ops[w].raised

\* an exchange that wrote once and then read several chunks
C8_Witness ==
  /\ Ended
  /\ Cardinality(OpsNamed("WriteFile")) = 1
  /\ Cardinality(OpsNamed("ReadFile")) >= 2

\* the JSON documents among the strings the peer can write
IsJsonDocument(s) ==
  \/ s = <<"0">>
  \/ /\ Len(s) >= 2
     /\ s[1] = "\"" /\ s[Len(s)] = "\""
     /\ \A i \in 2..(Len(s) - 1) : s[i] \notin {"\"", "\\"}

\* C9 as stated: a complete response that is not valid JSON makes the call
\* fail with an error of the kind ProtocolDecodeFailure, not with the
\* parser's own exception.
C9_ProtocolDecodeFailure ==
  (Ended /\ result.some /\ ~IsJsonDocument(result.v)) =>
    Raised("ProtocolDecodeFailure")

\* C9 amended: a complete response that is not valid JSON makes the call
\* fail with json.JSONDecodeError, the parser's own exception, which is none
\* of NamedPipeTimeoutError, PipeDisconnectedException, pywintypes.error and
\* IOError; a valid one makes it return.
C9_JSONDecodeError ==
  (Ended /\ result.some) =>
    IF IsJsonDocument(result.v)
    THEN outcome.kind = "return"
    ELSE outcome = Raise(PythonError("json.JSONDecodeError"))

\* a response read in several chunks that is not valid JSON
C9_Witness ==
  /\ Ended /\ result.some /\ ~IsJsonDocument(result.v)
  /\ Len(data_parts) >= 2
  /\ Raised("json.JSONDecodeError")

HasKey(d, k) == \E i \in DOMAIN d : d[i][1] = k
ValueOf(d, k) == d[CHOOSE i \in DOMAIN d : d[i][1] = k][2]

\* C10: the envelope that is written has method and path, has body exactly
\* when the caller supplied a body mapping and params exactly when the
\* caller supplied params, the empty mapping included, and each of the two
\* is the JSON text of the supplied mapping.
C10_EnvelopeFields ==
  written # <<>> =>
    /\ written = utf8_encode(json_dumps_message(message_dict))
    /\ HasKey(message_dict, <<"m", "e", "t", "h", "o", "d">>)
    /\ ValueOf(message_dict, <<"m", "e", "t", "h", "o", "d">>) = method
    /\ HasKey(message_dict, <<"p", "a", "t", "h">>)
    /\ ValueOf(message_dict, <<"p", "a", "t", "h">>) = path
    /\ HasKey(message_dict, <<"b", "o", "d", "y">>) <=> json_body.some
    /\ json_body.some =>
         ValueOf(message_dict, <<"b", "o", "d", "y">>) = json_dumps(json_body.v)
    /\ HasKey(message_dict, <<"p", "a", "r", "a", "m", "s">>) <=> params.some
    /\ params.some =>
         ValueOf(message_dict, <<"p", "a", "r", "a", "m", "s">>) = json_dumps(params.v)

\* C11: when connection, write and read raise no transport error and the
\* peer answers with one well-formed JSON message, the call returns the value
\* that message parses to.
C11_ReturnsPeerResponse ==
  (/\ Ended /\ Established
   /\ \A i \in DOMAIN chan_ops :
        ~chan_ops[i].raised
        /\ chan_ops[i].code \in {NO_ERROR, ERROR_MORE_DATA}
   /\ utf8_decode(peer_msg).ok
   /\ IsJsonDocument(utf8_decode(peer_msg).s))
  => outcome = Return(json_loads(utf8_decode(peer_msg).s))

\* C13: establish_named_pipe_connection gives up only after an open that
\* failed at an elapsed time beyond the timeout, and retries after every
\* other transient failure; so when the endpoint is connectable from a time
\* not later than timeout_in_seconds on, the call does not fail with Timeout.
C13_ConnectsWhenConnectableInTime ==
  /\ (endpoint.promised /\ endpoint.from <= timeout_in_seconds) =>
       ~Raised("NamedPipeTimeoutError")
  /\ Raised("NamedPipeTimeoutError") => duration > timeout_in_seconds
  /\ (pc = "CreateFile" /\ conn_log # <<>>) =>
       /\ conn_log[Len(conn_log)] = "sleep"
       /\ duration <= timeout_in_seconds

\* the endpoint became connectable after the first attempts had failed and
\* within the timeout, and a later attempt opened it
C13_Witness ==
  /\ endpoint.promised
  /\ endpoint.from > 0 /\ endpoint.from <= timeout_in_seconds
  /\ pc = "SetNamedPipeHandleState" /\ handle # 0
  /\ Len(conn_log) >= 5
  /\ now >= endpoint.from

\* C14: the value compared with timeout_in_seconds and carried by the Timeout
\* error is the elapsed time measured after the backoff sleep, and the open
\* is retried exactly when that value does not exceed the timeout.
C14_ElapsedMeasuredAfterSleep ==
  /\ Raised("NamedPipeTimeoutError") => outcome.exc.duration = now - start_time
  /\ (pc = "CreateFile" /\ conn_log # <<>>) =>
       now - start_time <= timeout_in_seconds

\* C15: a handle is written to or read from only after
\* SetNamedPipeHandleState has put it in message-read mode, and when that
\* call fails the exchange ends with its error without any write or read.
C15_MessageModeBeforeUse ==
  /\ pc \in {"WriteFile", "ReadFile"} =>
       /\ handle # 0
       /\ handles[handle].message_mode
  /\ \A i \in OpsNamed("WriteFile") \cup OpsNamed("ReadFile") :
       /\ i > 1
       /\ chan_ops[1] = Op("SetNamedPipeHandleState", FALSE, 0)
       /\ handles[handle].message_mode
  /\ (chan_ops # <<>> /\ chan_ops[1].raised) =>
       /\ Ended
       /\ outcome = Raise(pywintypes_error(chan_ops[1].code,
                                           "SetNamedPipeHandleState"))
       /\ OpsNamed("WriteFile") \cup OpsNamed("ReadFile") = {}
       /\ ~handles[handle].message_mode

\* an exchange that wrote and read on a handle in message-read mode
C15_Witness ==
  /\ Ended /\ outcome.kind = "return"
  /\ handles[handle].message_mode
  /\ OpsNamed("WriteFile") # {} /\ OpsNamed("ReadFile") # {}

\* a write or read that raised or reported an unexpected status
FailedOp(i) ==
  /\ chan_ops[i].op \in {"WriteFile", "ReadFile"}
  /\ chan_ops[i].raised \/ chan_ops[i].code \notin {NO_ERROR, ERROR_MORE_DATA}

\* C16: after a write or read on the handle has failed, the exchange has
\* ended and the only operation that follows on that handle is its close; in
\* particular no read follows a failed write.
C16_NoUseAfterFailure ==
  \A i \in DOMAIN chan_ops :
    FailedOp(i) =>
      /\ Ended
      /\ \A j \in DOMAIN chan_ops : j > i => chan_ops[j].op = "close"
      /\ chan_ops[i].op = "WriteFile" => OpsNamed("ReadFile") = {}

\* a write that failed, followed by the close and nothing else
C16_Witness ==
  /\ Ended
  /\ \E i \in OpsNamed("WriteFile") :
       /\ FailedOp(i)
       /\ i + 1 = Len(chan_ops)
       /\ chan_ops[i + 1].op = "close"
  /\ OpsNamed("ReadFile") = {}

\* C17: a ReadFile that returns a status other than more-data and
\* message-complete makes the call fail with IOError; the failure is not
\* turned into PipeDisconnectedException and no string is returned.
C17_UnexpectedStatusIsIOError ==
  \A i \in OpsNamed("ReadFile") :
    (~chan_ops[i].raised /\ chan_ops[i].code \notin {NO_ERROR, ERROR_MORE_DATA}) =>
      /\ Ended
      /\ outcome = Raise(PythonError("IOError"))
      /\ result = None

\* C18: read_from_pipe reads on as long as the chunks report more-data: a
\* ReadFile that returned more-data is followed by another ReadFile, made or
\* about to be made; the read never stops while more data is reported.
C18_ReadsOnWhileMoreData ==
  \A i \in OpsNamed("ReadFile") :
    (~chan_ops[i].raised /\ chan_ops[i].code = ERROR_MORE_DATA) =>
      \/ i = Len(chan_ops) /\ pc = "ReadFile"
      \/ i < Len(chan_ops) /\ chan_ops[i + 1].op = "ReadFile"

\* C19: a Timeout is raised only after at least one CreateFile was attempted,
\* whatever the timeout (zero and negative included), and once CreateFile has
\* returned a handle the loop is over: no timeout check follows and the call
\* does not end with Timeout, whatever the elapsed time.
C19_AttemptBeforeTimeout ==
  /\ Raised("NamedPipeTimeoutError") =>
       /\ \E i \in DOMAIN conn_log : conn_log[i] = "CreateFile"
       /\ handle = 0
  /\ handle # 0 => pc \notin {"CreateFile", "sleep"}
  /\ pc = "sleep" => (conn_log # <<>> /\ conn_log[Len(conn_log)] = "CreateFile")

\* a negative timeout: the Timeout comes after one attempt and one sleep
C19_Witness ==
  /\ Raised("NamedPipeTimeoutError")
  /\ timeout_in_seconds < 0
  /\ conn_log = <<"CreateFile", "sleep">>

LastRead == CHOOSE i \in OpsNamed("ReadFile") :
              \A j \in OpsNamed("ReadFile") : j <= i

\* C20: read_from_pipe returns a string only when the last chunk it read
\* reported message-complete, and the string is then made of every chunk
\* read in the call, in order; when the read fails, also after chunks were
\* accumulated, nothing is returned.
C20_NoPartialMessage ==
  /\ result.some =>
       /\ OpsNamed("ReadFile") # {}
       /\ chan_ops[LastRead] = Op("ReadFile", FALSE, NO_ERROR)
       /\ Len(data_parts) = Cardinality(OpsNamed("ReadFile"))
       /\ result.v = join(data_parts)
       /\ utf8_encode(result.v)
            = SubSeq(peer_msg, 1, Len(peer_msg) - Len(pipe_bytes))
  /\ (/\ Ended /\ OpsNamed("ReadFile") # {}
      /\ chan_ops[LastRead] # Op("ReadFile", FALSE, NO_ERROR)) =>
       /\ result = None
       /\ outcome.kind = "raise"

\* a transport error after a first chunk had been accumulated
C20_Witness ==
  /\ Ended
  /\ Cardinality(OpsNamed("ReadFile")) >= 2
  /\ Len(data_parts) >= 1
  /\ chan_ops[LastRead].raised
  /\ result = None /\ outcome.kind = "raise"

(***************************************************************************)
(* Concurrent exchanges: every caller runs send_named_pipe_request once,   *)
(* in its own thread, against a server that accepts MaxInstances clients   *)
(* at a time.  The payload is left out here: a write and a read are the    *)
(* win32 calls made on the caller's handle.                                *)
(***************************************************************************)
\* handle_slot with one variable shared by all callers
handle_slot_Shared(c) == 1

\* handle is a local variable of the call: every caller has its own
handle_slot(c) == c

MyHandle(c) == local_handle[handle_slot(c)]

ConcurrentTimeouts == {0, MaxTimeout}

OpenCount ==
  Cardinality({h \in DOMAIN pipe_handles : pipe_handles[h].open})

Used(c, name) == uses \cup {<<c, MyHandle(c), name>>}

Moved(c, to, how) ==
  callers' = [callers EXCEPT ![c] = [@ EXCEPT !.pc = to, !.ended = how]]

CallerCall(c) ==
  /\ callers[c].pc = "idle"
  /\ \E t \in ConcurrentTimeouts :
       callers' = [callers EXCEPT ![c] =
                     [pc |-> establish_entry, timeout |-> t, now |-> 0,
                      duration |-> 0, ended |-> "none"]]
  /\ local_handle' = [local_handle EXCEPT ![handle_slot(c)] = 0]
  /\ UNCHANGED <<pipe_handles, uses, sequential>>

\* CreateFile opens a free pipe instance, or raises ERROR_PIPE_BUSY
CallerCreateFile(c) ==
  /\ callers[c].pc = "CreateFile"
  /\ IF OpenCount < MaxInstances
     THEN /\ pipe_handles' =
               Append(pipe_handles, [open |-> TRUE, closes |-> 0,
                                     message_mode |-> FALSE, owner |-> c])
          /\ local_handle' =
               [local_handle EXCEPT ![handle_slot(c)] = Len(pipe_handles) + 1]
          /\ Moved(c, "SetNamedPipeHandleState", "none")
     ELSE /\ IsTransientOpenError(ERROR_PIPE_BUSY)
          /\ callers' = [callers EXCEPT ![c] =
                           [@ EXCEPT !.pc = "sleep", !.duration = callers[c].now]]
          /\ UNCHANGED <<pipe_handles, local_handle>>
  /\ UNCHANGED <<uses, sequential>>

CallerSleep(c) ==
  /\ callers[c].pc = "sleep"
  /\ callers' = [callers EXCEPT ![c] =
       IF TimeoutExceeded(callers[c].duration, callers[c].timeout)
       THEN [@ EXCEPT !.now = @ + SleepTicks, !.pc = "done",
                      !.ended = "NamedPipeTimeoutError"]
       ELSE [@ EXCEPT !.now = @ + SleepTicks, !.pc = "CreateFile"]]
  /\ UNCHANGED <<local_handle, pipe_handles, uses, sequential>>

CallerSetNamedPipeHandleState(c) ==
  /\ callers[c].pc = "SetNamedPipeHandleState"
  /\ uses' = Used(c, "SetNamedPipeHandleState")
  /\ \/ /\ pipe_handles' = set_message_mode(pipe_handles, MyHandle(c))
        /\ Moved(c, "WriteFile", "none")
     \/ /\ Moved(c, "done", "pywintypes.error")
        /\ UNCHANGED pipe_handles
  /\ UNCHANGED <<local_handle, sequential>>

CallerWriteFile(c) ==
  /\ callers[c].pc = "WriteFile"
  /\ \/ /\ uses' = Used(c, "WriteFile")
        /\ Moved(c, after_write(FALSE), "none")
        /\ UNCHANGED pipe_handles
     \/ /\ uses' = Used(c, "WriteFile") \cup Used(c, "close")
        /\ pipe_handles' = close(pipe_handles, MyHandle(c))
        /\ Moved(c, after_write(TRUE), "error")
  /\ UNCHANGED <<local_handle, sequential>>

CallerReadFile(c) ==
  /\ callers[c].pc = "ReadFile"
  /\ \/ \* more data
        /\ uses' = Used(c, "ReadFile")
        /\ UNCHANGED <<callers, pipe_handles>>
     \/ \* message complete, or the read fails
        \E how \in {"return", "error"} :
          /\ uses' = Used(c, "ReadFile") \cup Used(c, "close")
          /\ pipe_handles' = close(pipe_handles, MyHandle(c))
          /\ Moved(c, "done", how)
  /\ UNCHANGED <<local_handle, sequential>>

NextConcurrent ==
  \E c \in Callers :
    \/ CallerCall(c)
    \/ CallerCreateFile(c)
    \/ CallerSleep(c)
    \/ CallerSetNamedPipeHandleState(c)
    \/ CallerWriteFile(c)
    \/ CallerReadFile(c)

SpecConcurrent == Init /\ [][NextConcurrent]_vars

\* C12: every exchange opens a handle of its own and writes to, reads from
\* and closes only the handle it opened; no handle is held or used by two
\* callers, and a caller that finds the pipe busy holds no handle while it
\* retries, so the server never has more clients than it accepts.
C12_OwnHandleOnly ==
  /\ \A u \in uses :
       /\ u[2] \in DOMAIN pipe_handles
       /\ pipe_handles[u[2]].owner = u[1]
  /\ \A c \in Callers :
       /\ callers[c].pc \in {"SetNamedPipeHandleState", "WriteFile", "ReadFile"} =>
            /\ MyHandle(c) \in DOMAIN pipe_handles
            /\ pipe_handles[MyHandle(c)].owner = c
            /\ pipe_handles[MyHandle(c)].open
       /\ callers[c].pc \in {"CreateFile", "sleep"} => MyHandle(c) = 0
       /\ callers[c].ended \in {"return", "error"} =>
            /\ MyHandle(c) \in DOMAIN pipe_handles
            /\ pipe_handles[MyHandle(c)].owner = c
            /\ pipe_handles[MyHandle(c)].closes = 1
  /\ \A c1, c2 \in Callers :
       (c1 # c2 /\ MyHandle(c1) # 0) => MyHandle(c1) # MyHandle(c2)
  /\ OpenCount <= MaxInstances

\* two callers completed their exchanges on different handles, one of them
\* after it had found the pipe busy and retried
C12_Witness ==
  \E c1, c2 \in Callers :
    /\ c1 # c2
    /\ callers[c1].ended = "return" /\ callers[c2].ended = "return"
    /\ callers[c2].now > 0
    /\ MyHandle(c1) # MyHandle(c2)
    /\ <<c1, MyHandle(c1), "ReadFile">> \in uses
    /\ <<c2, MyHandle(c2), "ReadFile">> \in uses

=============================================================================
